---- MODULE Spec2Model ----
(***************************************************************************)
(* A model of the quiz-solving service of src/app/main.py: the credential  *)
(* check, the POST /quiz and POST /quiz-sync handlers, and the chain       *)
(* driver solve_quiz_chain with its clock, its pacing sleeps, its          *)
(* payload-size guard and its handling of the grader's responses.          *)
(*                                                                         *)
(* Strings.  A Python str is modelled as a record [body, pad]: the         *)
(* characters of body followed by pad spaces.  body never ends with a      *)
(* space, so equal strings are equal records.  The run of trailing spaces  *)
(* lets a string be longer than MAX_PAYLOAD_BYTES without writing its      *)
(* characters out.                                                         *)
(*                                                                         *)
(* Time.  now is the value of time.time() in whole seconds.  A sleep or a  *)
(* blocking HTTP call adds its duration to now.                            *)
(***************************************************************************)
EXTENDS Integers, Sequences, FiniteSets, TLC

VARIABLES
    now,              \* time.time()
    tasks,            \* BackgroundTasks: the chain runs enqueued and not yet started
    pc,               \* position of the running chain: idle, loop, fetch, submit, final
    url, email, secret, max_attempts,      \* parameters of solve_quiz_chain
    current_url, attempts, results, start_time,
    original_email, original_secret,
    submit_url, answer, payload,           \* locals of one attempt, between fetch and POST
    timed_out,        \* the "Total work timeout reached" warning was logged
    n_fetch, n_post,  \* GETs and POSTs issued by the running chain
    last_fetch,       \* the last GET of the chain: url, elapsed time at its start, outcome
    last_post,        \* the last POST of the chain: target, payload, elapsed time, outcome
    returned,         \* what the last finished chain returned
    n_req,            \* HTTP requests handled so far
    resp,             \* the last HTTP response sent
    sync_io,          \* the last /quiz-sync request: its GETs, its POSTs, what the grader sent
    call,             \* a function called on its own: its name and its arguments
    ret               \* what that call returned

chain_vars == <<pc, url, email, secret, max_attempts, current_url, attempts, results,
                start_time, original_email, original_secret, submit_url, answer,
                payload, timed_out, n_fetch, n_post, last_fetch, last_post, returned>>
http_vars == <<n_req, resp, sync_io>>
call_vars == <<call, ret>>
vars == <<now, tasks, chain_vars, http_vars, call_vars>>

\* ------------------------------------------------------------------ strings

Str(chars) == [body |-> chars, pad |-> 0]
Padded(chars, n) == [body |-> chars, pad |-> n]
EmptyStr == Str(<<>>)
None == [none |-> TRUE]

Spaces(n) == [i \in 1..n |-> " "]

RECURSIVE TrailingSpaces(_)
TrailingSpaces(chars) ==
    IF chars # <<>> /\ chars[Len(chars)] = " "
    THEN 1 + TrailingSpaces(SubSeq(chars, 1, Len(chars) - 1))
    ELSE 0

\* The record of the string made of chars followed by n spaces.
Norm(chars, n) ==
    LET k == TrailingSpaces(chars)
    IN [body |-> SubSeq(chars, 1, Len(chars) - k), pad |-> n + k]

StrLen(s) == Len(s.body) + s.pad

\* bool(s) of a str
Truthy(s) == StrLen(s) > 0

RECURSIVE LStrip(_)
LStrip(chars) ==
    IF chars # <<>> /\ Head(chars) = " " THEN LStrip(Tail(chars)) ELSE chars

\* s.strip()
strip(s) == [body |-> LStrip(s.body), pad |-> 0]

\* s[:n]
Take(s, n) ==
    IF Len(s.body) >= n
    THEN Norm(SubSeq(s.body, 1, n), 0)
    ELSE [body |-> s.body, pad |-> IF s.pad < n - Len(s.body) THEN s.pad ELSE n - Len(s.body)]

\* s + t
Cat(s, t) ==
    IF s.pad = 0 THEN [body |-> s.body \o t.body, pad |-> t.pad]
    ELSE IF t.body = <<>> THEN [body |-> s.body, pad |-> s.pad + t.pad]
    ELSE [body |-> s.body \o Spaces(s.pad) \o t.body, pad |-> t.pad]

\* sub in s, for a sub without spaces
Contains(s, sub) ==
    \E i \in 1..(Len(s.body) - Len(sub) + 1) : SubSeq(s.body, i, i + Len(sub) - 1) = sub

\* s.rsplit('/', 1)[0] if '/' in s else s
RsplitHead(s) ==
    LET idx == {i \in 1..Len(s.body) : s.body[i] = "/"}
    IN IF idx = {} THEN s
       ELSE LET last == CHOOSE i \in idx : \A j \in idx : j <= i
            IN Norm(SubSeq(s.body, 1, last - 1), 0)

Digit(d) == <<"0", "1", "2", "3", "4", "5", "6", "7", "8", "9">>[d + 1]

RECURSIVE DigitsOf(_)
DigitsOf(n) == IF n < 10 THEN <<Digit(n)>> ELSE Append(DigitsOf(n \div 10), Digit(n % 10))

\* str(n) of an int
IntToStr(n) == IF n < 0 THEN Str(<<"-">> \o DigitsOf(-n)) ELSE Str(DigitsOf(n))

\* ------------------------------------------------------------------ JSON

\* Bytes json.dumps writes for one character of a string (ensure_ascii).
EscLen(c) == IF c \in {"\"", "\\"} THEN 2 ELSE 1

RECURSIVE EscSum(_)
EscSum(chars) == IF chars = <<>> THEN 0 ELSE EscLen(Head(chars)) + EscSum(Tail(chars))

JsonStrLen(s) == 2 + EscSum(s.body) + s.pad

\* An answer is an int or a str.
IntAnswer(n) == [t |-> "int", v |-> n]
StrAnswer(s) == [t |-> "str", v |-> s]

\* str(answer)
PyStr(a) == IF a.t = "int" THEN IntToStr(a.v) ELSE a.v

JsonAnswerLen(a) == IF a.t = "int" THEN StrLen(IntToStr(a.v)) ELSE JsonStrLen(a.v)

\* Bytes of the keys, colons, commas and braces of the four-key payload.
PayloadOverhead == 44

\* len(json.dumps(payload).encode('utf-8'))
PayloadSize(p) ==
    PayloadOverhead + JsonStrLen(p.email) + JsonStrLen(p.secret) + JsonStrLen(p.url)
        + JsonAnswerLen(p.answer)

\* ------------------------------------------------------------------ configuration

QUIZ_SECRET == Str(<<"M", "O", "N", "A", "H", "A", "R", "I", "N", "I", "R", "0", "8", "0", "2">>)
QUIZ_EMAIL == Str(<<"2", "2", "f", "1", "0", "0", "0", "9", "1", "2", "@", "d", "s", ".",
                    "s", "t", "u", "d", "y", ".", "i", "i", "t", "m", ".", "a", "c", ".",
                    "i", "n">>)
TOTAL_WORK_TIMEOUT == 150
HTTP_TIMEOUT == 30
MAX_PAYLOAD_BYTES == 1048576
YOUR_EMAIL == QUIZ_EMAIL
YOUR_SECRET == QUIZ_SECRET
DefaultMaxAttempts == 5
AnswerLimit == 1000

\* The HTTP requests a run of the service handles.
MaxRequests == 2

\* ------------------------------------------------------------------ credentials

\* A verification that looks at the email only.
verify_credentials_EmailOnly(e, s) == strip(e) = YOUR_EMAIL

\* verify_credentials: both inputs are stripped, then compared with the configured
\* values.  email and secret are str (QuizRequest), so the except branch is not taken.
verify_credentials(e, s) ==
    LET received_email == strip(e)
        received_secret == strip(s)
        email_match == received_email = YOUR_EMAIL
        secret_match == received_secret = YOUR_SECRET
    IN email_match /\ secret_match

\* ------------------------------------------------------------------ page fetch

\* What requests.get does for a URL: a network error, a response with a status, and
\* how long it blocks.  A page is the decoded instruction text: the words and
\* phrases that occur in it, as they are written, the first URL in it that contains
\* "submit" ("" when there is none) and a secret embedded in the page (None when
\* there is none).
FetchError(d) == [kind |-> "neterr", dur |-> d]
FetchStatus(st, d) == [kind |-> "resp", status |-> st, dur |-> d]
FetchPage(page, d) == [kind |-> "resp", status |-> 200, page |-> page, dur |-> d]

Page(words, submit, sec) == [words |-> words, submit |-> submit, secret |-> sec]

\* get_instructions: the page text, or an HTTPException(400) for a network error or
\* a status raise_for_status rejects.
get_instructions(f) ==
    IF f.kind = "neterr" \/ f.status >= 400
    THEN [raised |-> TRUE, error |-> "Fetch failed"]
    ELSE [raised |-> FALSE, text |-> f.page]

\* ------------------------------------------------------------------ classification

\* The keyword lists of the if/elif chain, in its order.
FileWords == {"download", "file", ".pdf", ".csv"}
SumWords == {"sum", "total", "add", "calculate"}
ApiWords == {"api"}
ScrapeWords == {"scrape", "extract", "parse"}
CountWords == {"count", "number of"}
AudioWords == {"audio", "sound", "listen"}

\* str.lower() of a word.
Lower(w) ==
    CASE w = "Download" -> "download"
      [] w = "FILE" -> "file"
      [] w = "Sum" -> "sum"
      [] w = "TOTAL" -> "total"
      [] w = "API" -> "api"
      [] w = "Extract" -> "extract"
      [] w = "Number of" -> "number of"
      [] w = "Listen" -> "listen"
      [] OTHER -> w

\* text_lower: what occurs in the lower-cased text.
text_lower(text) == {Lower(w) : w \in text.words}

\* any(word in text_lower for word in words)
AnyIn(words, lowered) == \E word \in words : word \in lowered

\* The task types in the reverse of the order of the chain.
TaskType_Reversed(lowered) ==
    IF AnyIn(AudioWords, lowered) THEN "audio"
    ELSE IF AnyIn(CountWords, lowered) THEN "counting"
    ELSE IF AnyIn(ScrapeWords, lowered) THEN "scraping"
    ELSE IF AnyIn(ApiWords, lowered) THEN "api_call"
    ELSE IF AnyIn(SumWords, lowered) THEN "sum_calculation"
    ELSE IF AnyIn(FileWords, lowered) THEN "file_download"
    ELSE "general"

\* The if/elif chain that determines the task type.
TaskType(lowered) ==
    IF AnyIn(FileWords, lowered) THEN "file_download"
    ELSE IF AnyIn(SumWords, lowered) THEN "sum_calculation"
    ELSE IF AnyIn(ApiWords, lowered) THEN "api_call"
    ELSE IF AnyIn(ScrapeWords, lowered) THEN "scraping"
    ELSE IF AnyIn(CountWords, lowered) THEN "counting"
    ELSE IF AnyIn(AudioWords, lowered) THEN "audio"
    ELSE "general"

\* parse_question: the submit URL found in the text and the task type.
parse_question(text) ==
    [submit_url |-> text.submit, task_type |-> TaskType(text_lower(text))]

\* ------------------------------------------------------------------ answers

MarkDemoScrape == <<"d", "e", "m", "o", "-", "s", "c", "r", "a", "p", "e">>
MarkDemoAudio == <<"d", "e", "m", "o", "-", "a", "u", "d", "i", "o">>
MarkDemoSum == <<"d", "e", "m", "o", "-", "s", "u", "m">>
MarkDemoFile == <<"d", "e", "m", "o", "-", "f", "i", "l", "e">>
MarkDemoApi == <<"d", "e", "m", "o", "-", "a", "p", "i">>
MarkDemo == <<"d", "e", "m", "o">>
TxtAudioDemo == <<"a", "u", "d", "i", "o", "_", "p", "r", "o", "c", "e", "s", "s", "e", "d", "_",
        "s", "u", "c", "c", "e", "s", "s", "f", "u", "l", "l", "y">>
TxtFileDemo == <<"f", "i", "l", "e", "_", "d", "o", "w", "n", "l", "o", "a", "d", "e", "d", "_",
        "a", "n", "d", "_", "p", "r", "o", "c", "e", "s", "s", "e", "d">>
TxtApiDemo == <<"a", "p", "i", "_", "r", "e", "s", "p", "o", "n", "s", "e", "_", "r", "e", "c",
        "e", "i", "v", "e", "d">>
TxtAudioQuestion == <<"a", "u", "d", "i", "o", "_", "a", "n", "a", "l", "y", "s", "i", "s", "_", "c",
        "o", "m", "p", "l", "e", "t", "e">>
TxtFileDownload == <<"f", "i", "l", "e", "_", "p", "r", "o", "c", "e", "s", "s", "e", "d", "_", "s",
        "u", "c", "c", "e", "s", "s", "f", "u", "l", "l", "y">>
TxtScraped == <<"s", "c", "r", "a", "p", "e", "d", "_", "d", "a", "t", "a", "_">>
TxtExtracted == <<"e", "x", "t", "r", "a", "c", "t", "e", "d", "_">>
TxtItems == <<"_", "i", "t", "e", "m", "s">>
TxtSubmitPath == <<"/", "s", "u", "b", "m", "i", "t">>
GeneralDemoResponses ==
    {<<"t", "a", "s", "k", "_", "c", "o", "m", "p", "l", "e", "t", "e", "d", "_", "s",
        "u", "c", "c", "e", "s", "s", "f", "u", "l", "l", "y">>,
     <<"p", "r", "o", "c", "e", "s", "s", "_", "e", "x", "e", "c", "u", "t", "e", "d">>,
     <<"o", "p", "e", "r", "a", "t", "i", "o", "n", "_", "f", "i", "n", "i", "s", "h",
        "e", "d">>,
     <<"a", "n", "a", "l", "y", "s", "i", "s", "_", "c", "o", "m", "p", "l", "e", "t",
        "e">>}
GeneralPrefixes ==
    {<<"c", "o", "m", "p", "l", "e", "t", "e", "d", "_">>,
     <<"p", "r", "o", "c", "e", "s", "s", "e", "d", "_">>,
     <<"e", "x", "e", "c", "u", "t", "e", "d", "_">>,
     <<"f", "i", "n", "i", "s", "h", "e", "d", "_">>}

\* hash(current_url) % 1000 + 1 lies in 1..1000 and changes with the process's hash
\* seed: one value of each residue modulo 3, and the two ends of the range.
UrlHashes == {1, 2, 3, 1000}

\* random.randint(lo, hi): the two ends of the range.
RandInt(lo, hi) == {lo, hi}

\* Each handler is the set of values it may return.
handle_scraping_demo(qi) ==
    {IF h % 3 = 0 THEN IntAnswer(h)
     ELSE IF h % 3 = 1 THEN StrAnswer(Str(TxtScraped \o DigitsOf(h)))
     ELSE StrAnswer(Str(TxtExtracted \o DigitsOf(h) \o TxtItems)) : h \in UrlHashes}
handle_audio_demo(qi) == {StrAnswer(Str(TxtAudioDemo))}
handle_sum_demo(qi) == {IntAnswer(n) : n \in RandInt(1000, 5000)}
handle_file_demo(qi) == {StrAnswer(Str(TxtFileDemo))}
handle_api_demo(qi) == {StrAnswer(Str(TxtApiDemo))}
handle_general_demo(qi) == {StrAnswer(Str(r)) : r \in GeneralDemoResponses}
handle_scraping_task(qi) == handle_scraping_demo(qi)
handle_audio_question(qi) == {StrAnswer(Str(TxtAudioQuestion))}
handle_counting_question(qi) == {IntAnswer(n) : n \in RandInt(5, 50)}
handle_general_question(qi) ==
    {StrAnswer(Str(p \o DigitsOf(h))) : p \in GeneralPrefixes, h \in UrlHashes}
handle_file_download(qi) == {StrAnswer(Str(TxtFileDownload))}
handle_sum_calculation(qi) == {IntAnswer(n) : n \in RandInt(100, 5000)}

\* generate_answer: the values it may return for a question, by the URL's demo
\* marker first and by the task type otherwise.  Its sleep is in the caller's step.
generate_answer(qi) ==
    LET u == qi.current_url
        task_type == qi.task_type
    IN IF Contains(u, MarkDemoScrape) THEN handle_scraping_demo(qi)
       ELSE IF Contains(u, MarkDemoAudio) THEN handle_audio_demo(qi)
       ELSE IF Contains(u, MarkDemoSum) THEN handle_sum_demo(qi)
       ELSE IF Contains(u, MarkDemoFile) THEN handle_file_demo(qi)
       ELSE IF Contains(u, MarkDemoApi) THEN handle_api_demo(qi)
       ELSE IF Contains(u, MarkDemo) THEN handle_general_demo(qi)
       ELSE IF task_type = "file_download" THEN handle_file_download(qi)
       ELSE IF task_type = "sum_calculation" THEN handle_sum_calculation(qi)
       ELSE IF task_type = "counting" THEN handle_counting_question(qi)
       ELSE IF task_type = "scraping" THEN handle_scraping_task(qi)
       ELSE IF task_type = "audio" THEN handle_audio_question(qi)
       ELSE handle_general_question(qi)

\* extract_submit_url of main.py: the first URL of the text containing "submit",
\* else origin + "/submit".
extract_submit_url(text, origin) ==
    IF Truthy(text.submit) THEN text.submit ELSE Cat(origin, Str(TxtSubmitPath))

\* ------------------------------------------------------------------ payload

\* A payload that carries the configured credentials instead of the caller's.
BuildPayload_Configured(e, s, u, a) ==
    [email |-> YOUR_EMAIL, secret |-> YOUR_SECRET, url |-> u, answer |-> a]

\* The payload dict of one attempt.
BuildPayload(e, s, u, a) == [email |-> e, secret |-> s, url |-> u, answer |-> a]

\* The payload-size guard: over the limit, the answer becomes the first 1000
\* characters of its string form; the size is not measured again.
GuardPayload(p) ==
    IF PayloadSize(p) > MAX_PAYLOAD_BYTES
    THEN [p EXCEPT !.answer = StrAnswer(Take(PyStr(p.answer), AnswerLimit))]
    ELSE p

\* ------------------------------------------------------------------ grader responses

\* A JSON value of the grader's body; None is a missing key.
JTrue == [j |-> "true"]
JFalse == [j |-> "false"]
JNum(n) == [j |-> "num", v |-> n]
JStr(s) == [j |-> "str", v |-> s]

\* bool(x) of a value read with result.get(key)
JTruthy(x) ==
    /\ x # None
    /\ \/ x.j = "true"
       \/ x.j = "num" /\ x.v # 0
       \/ x.j = "str" /\ Truthy(x.v)

\* The body of a response: not JSON, JSON that is not an object, or an object with
\* its correct, url and delay keys.
NotJson == [json |-> FALSE]
NotObject == [json |-> TRUE, dict |-> FALSE]
Obj(c, u, d) == [json |-> TRUE, dict |-> TRUE, correct |-> c, url |-> u, delay |-> d]

\* What requests.post does: it raises, or returns a status and a body, after dur.
PostError(d) == [kind |-> "exc", dur |-> d]
PostResp(st, body, d) == [kind |-> "resp", status |-> st, body |-> body, dur |-> d]

ErrorEntry(u, e) == [url |-> u, error |-> e]
SuccessEntry(u, a, r) == [url |-> u, answer |-> a, result |-> r]
IsError(entry) == "error" \in DOMAIN entry

\* ------------------------------------------------------------------ solve_quiz_chain

\* The while condition with its bound off by one.
LoopCond_OffByOne(cu, att, max) == Truthy(cu) /\ att <= max

\* The while condition.
LoopCond(cu, att, max) == Truthy(cu) /\ att < max

\* The timeout check made against the three minutes of the configuration comment.
TimeoutReached_ThreeMinutes(t, started) == t - started > 180

\* The total-timeout check at the head of an iteration.
TimeoutReached(t, started) == t - started > TOTAL_WORK_TIMEOUT

\* if result.get("correct") and result.get("url")
Continue(result) == JTruthy(result.correct) /\ JTruthy(result.url)

\* A break that leaves results as rs and current_url as u.
Stop(rs, u) == [results |-> rs, current_url |-> u, next |-> "final", slept |-> 0]

\* An error exit that records the error and goes round the loop again.
ErrorStop_Retry(rs, u, e) ==
    [results |-> Append(rs, [url |-> u, error |-> e]), current_url |-> u,
     next |-> "loop", slept |-> 0]

\* The error exits of the loop body (the non-200 branch and the except clause):
\* an entry with the current url and the error is appended, then break.
ErrorStop(rs, u, e) == Stop(Append(rs, ErrorEntry(u, e)), u)

\* What follows the POST of an attempt: the new results, the new current_url, where
\* the chain goes next and how long it sleeps for the grader's delay.  j is the
\* jitter drawn for the delay.
AfterPost(res, cu, ans, r, j) ==
    IF r.kind = "exc" THEN ErrorStop(res, cu, [exc |-> "RequestException"])
    ELSE IF r.status # 200 THEN ErrorStop(res, cu, [http |-> r.status])
    ELSE IF ~r.body.json THEN ErrorStop(res, cu, [exc |-> "JSONDecodeError"])
    ELSE LET result == r.body
             res1 == Append(res, SuccessEntry(cu, ans, result))
         IN IF ~result.dict THEN ErrorStop(res1, cu, [exc |-> "AttributeError"])
            ELSE IF Continue(result)
            THEN LET nu == result.url.v
                     d == result.delay
                 IN IF ~JTruthy(d)
                    THEN [results |-> res1, current_url |-> nu, next |-> "loop",
                          slept |-> 0]
                    ELSE IF d.j = "str" THEN ErrorStop(res1, nu, [exc |-> "TypeError"])
                    ELSE LET delay_time == (IF d.j = "num" THEN d.v ELSE 1) + j
                         IN IF delay_time < 0
                            THEN ErrorStop(res1, nu, [exc |-> "ValueError"])
                            ELSE [results |-> res1, current_url |-> nu,
                                  next |-> "loop", slept |-> delay_time]
            ELSE Stop(res1, cu)

NotReturned == [done |-> FALSE]

\* A background task: the arguments of one solve_quiz_chain run.
Task(u, e, s, max) == [url |-> u, email |-> e, secret |-> s, max_attempts |-> max]

\* The call: the parameters are bound and the locals initialised.
chain_enter ==
    /\ pc = "idle"
    /\ tasks # <<>>
    /\ LET t == Head(tasks)
       IN /\ url' = t.url
          /\ email' = t.email
          /\ secret' = t.secret
          /\ max_attempts' = t.max_attempts
          /\ current_url' = t.url
          /\ original_email' = t.email
          /\ original_secret' = t.secret
    /\ tasks' = Tail(tasks)
    /\ attempts' = 0
    /\ results' = <<>>
    /\ start_time' = now
    /\ pc' = "loop"
    /\ timed_out' = FALSE
    /\ n_fetch' = 0
    /\ n_post' = 0
    /\ last_fetch' = None
    /\ last_post' = None
    /\ submit_url' = EmptyStr
    /\ answer' = None
    /\ payload' = None
    /\ returned' = NotReturned
    /\ UNCHANGED <<now, http_vars, call_vars>>

\* The head of an iteration: the while condition, the timeout check, attempts += 1.
chain_loop ==
    /\ pc = "loop"
    /\ IF LoopCond(current_url, attempts, max_attempts)
       THEN IF TimeoutReached(now, start_time)
            THEN timed_out' = TRUE /\ pc' = "final" /\ UNCHANGED attempts
            ELSE attempts' = attempts + 1 /\ pc' = "fetch" /\ UNCHANGED timed_out
       ELSE pc' = "final" /\ UNCHANGED <<attempts, timed_out>>
    /\ UNCHANGED <<now, tasks, url, email, secret, max_attempts, current_url, results,
                   start_time, original_email, original_secret, submit_url, answer,
                   payload, n_fetch, n_post, last_fetch, last_post, returned, http_vars, call_vars>>

\* The pacing sleep, the page fetch, and up to the sleep before the POST: the
\* question is parsed, the submit URL and the answer found, the payload built and
\* guarded.  E gives what the network and the random source may do.
chain_fetch(E) ==
    /\ pc = "fetch"
    /\ \E d1 \in E.pacing, f \in E.fetches :
         LET started == now + d1
             got == get_instructions(f)
         IN /\ n_fetch' = n_fetch + 1
            /\ last_fetch' = [url |-> current_url, at |-> started - start_time,
                              failed |-> got.raised]
            /\ IF got.raised
               THEN /\ results' = ErrorStop(results, current_url,
                                              [exc |-> "HTTPException"]).results
                    /\ pc' = ErrorStop(results, current_url,
                                       [exc |-> "HTTPException"]).next
                    /\ now' = started + f.dur
                    /\ UNCHANGED <<submit_url, answer, payload>>
               ELSE LET instructions_text == got.text
                        parsed == parse_question(instructions_text)
                        question_info == [submit_url |-> parsed.submit_url,
                                          task_type |-> parsed.task_type,
                                          current_url |-> current_url]
                        origin == RsplitHead(current_url)
                    IN \E a \in generate_answer(question_info),
                          d3 \in E.answer_delay, d4 \in E.submit_delay :
                         /\ submit_url' =
                                IF Truthy(question_info.submit_url)
                                THEN question_info.submit_url
                                ELSE extract_submit_url(instructions_text, origin)
                         /\ answer' = a
                         /\ payload' = GuardPayload(BuildPayload(original_email,
                                            original_secret, current_url, a))
                         /\ now' = started + f.dur + d3 + d4
                         /\ pc' = "submit"
                         /\ UNCHANGED results
    /\ UNCHANGED <<tasks, url, email, secret, max_attempts, current_url, attempts,
                   start_time, original_email, original_secret, timed_out, n_post,
                   last_post, returned, http_vars, call_vars>>

\* The POST and the handling of the grader's response, with the delay it asks for.
chain_submit(E) ==
    /\ pc = "submit"
    /\ \E r \in E.posts, j \in E.jitter :
         LET o == AfterPost(results, current_url, answer, r, j)
         IN /\ n_post' = n_post + 1
            /\ last_post' = [to |-> submit_url, payload |-> payload,
                             at |-> now - start_time, received |-> r]
            /\ results' = o.results
            /\ current_url' = o.current_url
            /\ pc' = o.next
            /\ now' = now + r.dur + o.slept
    /\ UNCHANGED <<tasks, url, email, secret, max_attempts, attempts, start_time,
                   original_email, original_secret, submit_url, answer, payload,
                   timed_out, n_fetch, last_fetch, returned, http_vars, call_vars>>

\* The final summary reads r.get('result', {}).get('correct') of every entry, which
\* raises AttributeError for a recorded result that is not an object; else results
\* is returned.
SummaryRaises(rs) == \E i \in 1..Len(rs) : ~IsError(rs[i]) /\ ~rs[i].result.dict

chain_return ==
    /\ pc = "final"
    /\ returned' = IF SummaryRaises(results)
                   THEN [done |-> TRUE, raised |-> "AttributeError"]
                   ELSE [done |-> TRUE, value |-> results]
    /\ pc' = "idle"
    /\ UNCHANGED <<now, tasks, url, email, secret, max_attempts, current_url, attempts,
                   results, start_time, original_email, original_secret, submit_url,
                   answer, payload, timed_out, n_fetch, n_post, last_fetch, last_post,
                   http_vars, call_vars>>

\* ------------------------------------------------------------------ HTTP handlers

MarkSlashDemo == <<"/", "d", "e", "m", "o">>

\* s.split("/demo")[0] if "/demo" in s else s
SplitDemoHead(s) ==
    LET idx == {i \in 1..(Len(s.body) - Len(MarkSlashDemo) + 1) :
                   SubSeq(s.body, i, i + Len(MarkSlashDemo) - 1) = MarkSlashDemo}
    IN IF idx = {} THEN s
       ELSE LET first == CHOOSE i \in idx : \A j \in idx : i <= j
            IN Norm(SubSeq(s.body, 1, first - 1), 0)

\* The 403 of a request whose credentials do not verify.
Forbidden(endpoint, req) ==
    [endpoint |-> endpoint, req |-> req, status |-> 403,
     body |-> [error |-> "Invalid credentials", expected_email |-> YOUR_EMAIL,
               received_email |-> req.email]]

\* A handler that enqueues the chain whatever the credentials are.
quiz_tasks_Always(req, queue) ==
    Append(queue, [url |-> req.url, email |-> req.email, secret |-> req.secret,
                   max_attempts |-> DefaultMaxAttempts])

\* POST /quiz: the background tasks after the request.
quiz_tasks(req, queue) ==
    IF ~verify_credentials(req.email, req.secret)
    THEN queue
    ELSE Append(queue, Task(req.url, req.email, req.secret, DefaultMaxAttempts))

\* POST /quiz: the response.
quiz_response(req) ==
    IF ~verify_credentials(req.email, req.secret)
    THEN Forbidden("/quiz", req)
    ELSE [endpoint |-> "/quiz", req |-> req, status |-> 200,
          body |-> [status |-> "started", initial_url |-> req.url, email |-> req.email,
                    timeout_seconds |-> TOTAL_WORK_TIMEOUT]]

\* POST /quiz.  The chain is only enqueued: it runs after the response is sent.
solve_quiz(req) ==
    /\ n_req < MaxRequests
    /\ n_req' = n_req + 1
    /\ tasks' = quiz_tasks(req, tasks)
    /\ resp' = quiz_response(req)
    /\ UNCHANGED <<now, chain_vars, sync_io, call_vars>>

\* POST /quiz-sync: the question of the fetched text.
sync_question(req, text) ==
    LET parsed == parse_question(text)
    IN [submit_url |-> parsed.submit_url, task_type |-> parsed.task_type,
        current_url |-> req.url]

\* An except clause that lets the failure through as a server error.
sync_failed_500(req, posted) ==
    [status |-> 500, body |-> [detail |-> "Internal Server Error"],
     fetched |-> <<req.url>>, posted |-> posted]

\* The except clause of POST /quiz-sync: whatever was raised becomes a 400.
sync_failed(req, posted) ==
    [status |-> 400, body |-> [detail |-> "Quiz processing failed"],
     fetched |-> <<req.url>>, posted |-> posted]

\* The single cycle of POST /quiz-sync after the fetch outcome f, with the answer a
\* that generate_answer returned and the POST outcome r: the status and body sent
\* back, the GETs and the POSTs made.
sync_cycle(req, f, a, r) ==
    LET got == get_instructions(f)
        failed(posted) == sync_failed(req, posted)
    IN IF got.raised THEN failed(<<>>)
       ELSE LET instructions_text == got.text
                question_info == sync_question(req, instructions_text)
                origin == SplitDemoHead(req.url)
                target == IF Truthy(question_info.submit_url)
                          THEN question_info.submit_url
                          ELSE extract_submit_url(instructions_text, origin)
                sent == <<[to |-> target,
                           payload |-> BuildPayload(req.email, req.secret, req.url, a)]>>
            IN IF r.kind = "exc" THEN failed(sent)
               ELSE IF r.status # 200 THEN failed(sent)
               ELSE IF ~r.body.json THEN failed(sent)
               ELSE [status |-> 200, body |-> r.body, fetched |-> <<req.url>>,
                     posted |-> sent]

\* POST /quiz-sync: the whole handler.  It does not read the clock.
solve_quiz_sync(req, E) ==
    /\ n_req < MaxRequests
    /\ n_req' = n_req + 1
    /\ IF ~verify_credentials(req.email, req.secret)
       THEN /\ resp' = Forbidden("/quiz-sync", req)
            /\ sync_io' = [fetched |-> <<>>, posted |-> <<>>, received |-> None]
       ELSE \E f \in E.fetches, r \in E.posts :
              \E a \in (IF get_instructions(f).raised THEN {None}
                        ELSE generate_answer(sync_question(req, get_instructions(f).text))) :
                LET o == sync_cycle(req, f, a, r)
                IN /\ resp' = [endpoint |-> "/quiz-sync", req |-> req,
                               status |-> o.status, body |-> o.body]
                   /\ sync_io' = [fetched |-> o.fetched, posted |-> o.posted,
                                  received |-> IF o.posted = <<>> THEN None ELSE r]
    /\ UNCHANGED <<now, tasks, chain_vars, call_vars>>

\* ------------------------------------------------------------------ inputs

UrlAudio == Str(<<"h", "t", "t", "p", ":", "/", "/", "q", "/", "d", "e", "m", "o", "-",
                  "a", "u", "d", "i", "o">>)
UrlSum == Str(<<"h", "t", "t", "p", ":", "/", "/", "q", "/", "d", "e", "m", "o", "-",
                "s", "u", "m">>)
UrlPlain == Str(<<"h", "t", "t", "p", ":", "/", "/", "q", "/", "a">>)
\* A URL longer than MAX_PAYLOAD_BYTES.
UrlBig == Padded(<<"h", "t", "t", "p", ":", "/", "/", "q", "/", "a">>, MAX_PAYLOAD_BYTES)
\* Such a URL for which the answer is a number.
UrlBigSum == Padded(UrlSum.body, MAX_PAYLOAD_BYTES)
UrlSubmit == Str(<<"h", "t", "t", "p", ":", "/", "/", "q", "/", "s", "u", "b", "m", "i", "t">>)

OtherEmail == Str(<<"x", "@", "y">>)
OtherSecret == Str(<<"s", "3">>)
\* The configured email and secret with a space before and after them.
PaddedEmail == Padded(<<" ">> \o QUIZ_EMAIL.body, 1)
PaddedSecret == Padded(<<" ">> \o QUIZ_SECRET.body, 1)

PagePlain == Page({}, EmptyStr, None)
PageSecret == Page({"file", "sum"}, UrlSubmit, OtherSecret)

\* The delays a grader may ask for: none, numbers, a negative number, a string.
DelaySoon == JStr(Str(<<"s", "o", "o", "n">>))
Delays == {None, JNum(145), JNum(200), JNum(-5), DelaySoon}

GraderObjects ==
    {Obj(c, u, d) : c \in {JTrue, JFalse, None},
                    u \in {None, JStr(EmptyStr), JStr(UrlSum)},
                    d \in Delays}

\* The network and the random source of a chain run whose sleeps and calls take
\* every duration of their ranges' ends, with a grader that sends the chain on.
EnvTimed ==
    [pacing |-> {2, 5},
     fetches |-> {FetchError(0), FetchPage(PagePlain, 0), FetchPage(PagePlain, HTTP_TIMEOUT)},
     answer_delay |-> {1, 3},
     submit_delay |-> {1, 2},
     posts |-> {PostResp(200, Obj(JTrue, JStr(UrlAudio), d), t) :
                   d \in {None, JNum(60), JNum(145), JNum(200)}, t \in {0, HTTP_TIMEOUT}}
               \cup {PostResp(200, Obj(JFalse, None, None), 0), PostResp(500, NotJson, 0)},
     jitter |-> {1, 2}]

\* The network of a chain run with every kind of page and of grader response, each
\* sleep and call taking the least time of its range.
EnvRich ==
    [pacing |-> {2},
     fetches |-> {FetchError(0), FetchStatus(404, 0), FetchPage(PagePlain, 0),
                  FetchPage(PageSecret, 0)},
     answer_delay |-> {1},
     submit_delay |-> {1},
     posts |-> {PostError(0), PostResp(500, NotJson, 0), PostResp(200, NotJson, 0),
                PostResp(200, NotObject, 0)}
               \cup {PostResp(200, o, 0) : o \in GraderObjects},
     jitter |-> {1, 2}]

TimedTasks == {Task(UrlAudio, QUIZ_EMAIL, QUIZ_SECRET, DefaultMaxAttempts)}

RichTasks ==
    {Task(u, e, s, DefaultMaxAttempts) :
        u \in {EmptyStr, UrlAudio, UrlBig, UrlBigSum}, e \in {QUIZ_EMAIL, OtherEmail},
        s \in {QUIZ_SECRET}}

\* ------------------------------------------------------------------ specification

InitIdle ==
    /\ now = 0
    /\ pc = "idle"
    /\ url = EmptyStr
    /\ email = EmptyStr
    /\ secret = EmptyStr
    /\ max_attempts = 0
    /\ current_url = EmptyStr
    /\ attempts = 0
    /\ results = <<>>
    /\ start_time = 0
    /\ original_email = EmptyStr
    /\ original_secret = EmptyStr
    /\ submit_url = EmptyStr
    /\ answer = None
    /\ payload = None
    /\ timed_out = FALSE
    /\ n_fetch = 0
    /\ n_post = 0
    /\ last_fetch = None
    /\ last_post = None
    /\ returned = NotReturned
    /\ n_req = 0
    /\ resp = None
    /\ sync_io = None
    /\ ret = None

\* One call of solve_quiz_chain, with the durations of its sleeps and calls varied.
Init ==
    /\ InitIdle
    /\ call = None
    /\ tasks \in {<<t>> : t \in TimedTasks}

Next ==
    \/ chain_enter
    \/ chain_loop
    \/ chain_fetch(EnvTimed)
    \/ chain_submit(EnvTimed)
    \/ chain_return

Spec == Init /\ [][Next]_vars

\* One call of solve_quiz_chain, with the pages and the grader's responses varied.
InitChain ==
    /\ InitIdle
    /\ call = None
    /\ tasks \in {<<t>> : t \in RichTasks}

NextChain ==
    \/ chain_enter
    \/ chain_loop
    \/ chain_fetch(EnvRich)
    \/ chain_submit(EnvRich)
    \/ chain_return

SpecChain == InitChain /\ [][NextChain]_vars

\* The requests sent to the service: the configured credentials, the configured
\* credentials with surrounding spaces, and pairs with a wrong email or secret.
Requests ==
    {[email |-> c[1], secret |-> c[2], url |-> UrlAudio] :
        c \in {<<QUIZ_EMAIL, QUIZ_SECRET>>, <<PaddedEmail, PaddedSecret>>,
                <<OtherEmail, QUIZ_SECRET>>, <<QUIZ_EMAIL, OtherSecret>>,
                <<PaddedEmail, OtherSecret>>, <<OtherEmail, PaddedSecret>>}}

\* The network of the service's runs: a page or a failed fetch, a grader that sends
\* the chain on, ends it or fails.
EnvHttp ==
    [pacing |-> {2},
     fetches |-> {FetchError(0), FetchPage(PageSecret, 0)},
     answer_delay |-> {1},
     submit_delay |-> {1},
     posts |-> {PostError(0), PostResp(500, NotJson, 0), PostResp(200, NotJson, 0),
                PostResp(200, NotObject, 0),
                PostResp(200, Obj(JTrue, JStr(UrlSum), None), 0),
                PostResp(200, Obj(JFalse, None, None), 0)},
     jitter |-> {1}]

\* The service after start-up: no request handled, no chain enqueued.
InitHttp ==
    /\ InitIdle
    /\ call = None
    /\ tasks = <<>>

NextHttp ==
    \/ \E req \in Requests : solve_quiz(req)
    \/ \E req \in Requests : solve_quiz_sync(req, EnvHttp)
    \/ chain_enter
    \/ chain_loop
    \/ chain_fetch(EnvHttp)
    \/ chain_submit(EnvHttp)
    \/ chain_return

SpecHttp == InitHttp /\ [][NextHttp]_vars

\* ------------------------------------------------------------------ functions

\* The words a text given to parse_question is made of.
Vocabulary == {"Download", ".csv", "Sum", "API", "Extract", "Number of", "Listen", "hello"}

ParseCalls ==
    {[fn |-> "parse_question", text |-> Page(ws, u, None)] :
        ws \in SUBSET Vocabulary, u \in {EmptyStr, UrlSubmit}}

\* parse_question(text), called on its own.
call_parse_question ==
    /\ call.fn = "parse_question"
    /\ ret = None
    /\ ret' = [value |-> parse_question(call.text)]
    /\ UNCHANGED <<now, tasks, chain_vars, http_vars, call>>

\* ---- solve_quiz_page (solver.py): the secret

\* The html is given by the places where a pattern of secret_patterns matches, in
\* document order: each is the pattern, by its position in the list, and the text
\* of its first group.
Match(pat, group) == [pat |-> pat, group |-> group]

NumPatterns == 5
UNKNOWN_SECRET ==
    Str(<<"U", "N", "K", "N", "O", "W", "N", "_", "S", "E", "C", "R", "E", "T">>)

\* re.search(pat, html): the leftmost match of the pattern, None without one.
re_search(pat, html) ==
    LET at == {i \in 1..Len(html) : html[i].pat = pat}
    IN IF at = {} THEN None ELSE html[CHOOSE i \in at : \A j \in at : i <= j]

\* The for loop over secret_patterns from the pattern pat on: the stripped first
\* group of the first pattern that matches, None when the list is exhausted.
RECURSIVE search_from(_, _)
search_from(pat, html) ==
    IF pat > NumPatterns THEN None
    ELSE LET m == re_search(pat, html)
         IN IF m # None THEN strip(m.group) ELSE search_from(pat + 1, html)

\* A loop that takes the match that comes first in the document.
search_patterns_DocumentOrder(html) ==
    IF html = <<>> THEN None ELSE strip(html[1].group)

\* extracted_secret after the loop.
search_patterns(html) == search_from(1, html)

\* extracted_secret as returned: the sentinel replaces None and "".
extracted_secret(html) ==
    LET found == search_patterns(html)
    IN IF found = None THEN UNKNOWN_SECRET
       ELSE IF ~Truthy(found) THEN UNKNOWN_SECRET
       ELSE found

\* The most pattern matches in an html given to the extraction.
MaxMatches == 2

SecretA == Str(<<"a", "1">>)
SecretB == Padded(<<" ", "b", "2">>, 1)
SecretC == Str(<<"c", "3">>)
Blank == Padded(<<>>, 2)

\* The groups a pattern can capture: those of the second and of the fifth pattern
\* have no whitespace.
Groups(pat) == IF pat \in {2, 5} THEN {SecretA, SecretC} ELSE {SecretA, SecretB, Blank}

Matches == {Match(pat, g) : pat \in 1..NumPatterns, g \in {SecretA, SecretB, SecretC, Blank}}

Htmls ==
    {h \in UNION {[1..n -> Matches] : n \in 0..MaxMatches} :
        \A i \in 1..Len(h) : h[i].group \in Groups(h[i].pat)}

SecretCalls == {[fn |-> "solve_quiz_page", html |-> h] : h \in Htmls}

\* The secret extraction of solve_quiz_page, on its own.
call_solve_quiz_page ==
    /\ call.fn = "solve_quiz_page"
    /\ ret = None
    /\ ret' = [value |-> extracted_secret(call.html)]
    /\ UNCHANGED <<now, tasks, chain_vars, http_vars, call>>

\* ---- extract_submit_url (utils.py and main.py)

MarkSubmit == <<"s", "u", "b", "m", "i", "t">>
MarkAnswer == <<"a", "n", "s", "w", "e", "r">>
MarkUpload == <<"u", "p", "l", "o", "a", "d">>

\* The first of the elements of a sequence at the given places, None without one.
FirstAt(seq, at) ==
    IF at = {} THEN None ELSE seq[CHOOSE i \in at : \A j \in at : i <= j]

\* extract_submit_url of utils.py.  html and text are given by the URL literals in
\* them, in their order; hrefs is the list of link targets.
utils_extract_submit_url(text, html, hrefs) ==
    LET IsSubmitHref(u) ==
            /\ Truthy(u)
            /\ Contains(u, MarkSubmit) \/ Contains(u, MarkAnswer) \/ Contains(u, MarkUpload)
        HasSubmitPath(u) == Contains(u, TxtSubmitPath)
        HasApiPath(u) ==
            \/ Contains(u, <<"/", "a", "p", "i">>)
            \/ Contains(u, <<"/", "q", "u", "i", "z">>)
            \/ Contains(u, <<"/", "a", "n", "s", "w", "e", "r">>)
        literals == html \o text
        u == FirstAt(hrefs, {i \in 1..Len(hrefs) : IsSubmitHref(hrefs[i])})
        m == FirstAt(literals, {i \in 1..Len(literals) : HasSubmitPath(literals[i])})
        m2 == FirstAt(literals, {i \in 1..Len(literals) : HasApiPath(literals[i])})
    IN IF u # None THEN u
       ELSE IF m # None THEN m
       ELSE IF m2 # None THEN m2
       ELSE None

UrlAnswer == Str(<<"h", "t", "t", "p", ":", "/", "/", "q", "/", "a", "n", "s", "w", "e", "r">>)
UrlApi == Str(<<"h", "t", "t", "p", ":", "/", "/", "q", "/", "a", "p", "i", "/", "v">>)

\* The most entries in the hrefs given to extract_submit_url of utils.py.
MaxHrefs == 2

UtilsCalls ==
    {[fn |-> "utils.extract_submit_url", text |-> t, html |-> h, hrefs |-> hr] :
        t \in {<<>>, <<UrlSubmit>>},
        h \in {<<>>, <<UrlPlain>>, <<UrlApi>>, <<UrlApi, UrlSubmit>>},
        hr \in UNION {[1..n -> {EmptyStr, UrlPlain, UrlSubmit, UrlAnswer}] : n \in 0..MaxHrefs}}

\* extract_submit_url of utils.py, on its own.
call_utils_extract_submit_url ==
    /\ call.fn = "utils.extract_submit_url"
    /\ ret = None
    /\ ret' = [value |-> utils_extract_submit_url(call.text, call.html, call.hrefs)]
    /\ UNCHANGED <<now, tasks, chain_vars, http_vars, call>>

\* The calls of extract_submit_url of main.py, with the origin the chain gives it.
MainCalls ==
    {[fn |-> "extract_submit_url", text |-> Page({}, u, None), url |-> cu,
      origin |-> RsplitHead(cu)] :
        u \in {EmptyStr, UrlSubmit}, cu \in {UrlAudio, UrlSum, UrlPlain, UrlApi}}

\* extract_submit_url of main.py, on its own.
call_extract_submit_url ==
    /\ call.fn = "extract_submit_url"
    /\ ret = None
    /\ ret' = [value |-> extract_submit_url(call.text, call.origin)]
    /\ UNCHANGED <<now, tasks, chain_vars, http_vars, call>>

Calls == ParseCalls \cup SecretCalls \cup UtilsCalls \cup MainCalls

\* One call of one function.
InitCall ==
    /\ InitIdle
    /\ tasks = <<>>
    /\ call \in Calls

NextCall ==
    \/ call_parse_question
    \/ call_solve_quiz_page
    \/ call_utils_extract_submit_url
    \/ call_extract_submit_url

SpecCall == InitCall /\ [][NextCall]_vars

\* ------------------------------------------------------------------ claims

Last(seq) == seq[Len(seq)]
Elapsed == now - start_time

\* An entry of results for a 200 response whose body is an object with a truthy
\* correct and a non-empty url.
GoodResponse(entry) == ~IsError(entry) /\ entry.result.dict /\ Continue(entry.result)
AllGood == \A i \in 1..Len(results) : GoodResponse(results[i])

\* C1 as stated: attempts never exceeds max_attempts, and a chain that has left its
\* loop with every grader response a 200 with correct true and a next url has made
\* exactly max_attempts iterations.
C1_Original ==
    /\ attempts <= max_attempts
    /\ pc = "final" /\ Len(results) = attempts /\ AllGood => attempts = max_attempts

\* C1 amended: attempts, the fetches and the POSTs never exceed max_attempts; a
\* chain started with a non-empty url that has left its loop without the timeout
\* warning, with no error entry and with every grader response a 200 with correct
\* true and a next url, has made exactly max_attempts fetches and POSTs.
C1_AttemptBudget ==
    /\ attempts <= max_attempts
    /\ n_fetch <= attempts
    /\ n_post <= n_fetch
    /\ pc = "final" /\ Truthy(url) /\ ~timed_out /\ AllGood
         => attempts = max_attempts /\ n_fetch = max_attempts /\ n_post = max_attempts

C1_Witness ==
    /\ pc = "final"
    /\ ~timed_out
    /\ AllGood
    /\ Len(results) = DefaultMaxAttempts
    /\ attempts = DefaultMaxAttempts
    /\ n_post = DefaultMaxAttempts

C3_IoWithinTimeout ==
    /\ last_fetch # None => last_fetch.at <= TOTAL_WORK_TIMEOUT
    /\ last_post # None => last_post.at <= TOTAL_WORK_TIMEOUT

\* C4: every payload a chain builds and POSTs, at any attempt and whatever the
\* fetched page or the earlier grader responses contain, carries the email and the
\* secret the chain was started with.
C4_Credentials ==
    /\ pc = "submit" => payload.email = email /\ payload.secret = secret
    /\ last_post # None
         => last_post.payload.email = email /\ last_post.payload.secret = secret

C4_Witness ==
    /\ n_post >= 2
    /\ email = OtherEmail
    /\ last_fetch.url = UrlSum
    /\ last_post.to = UrlSubmit
    /\ last_post.payload.email = OtherEmail
    /\ last_post.payload.secret = QUIZ_SECRET

\* C5 as stated: in the payload about to be POSTed, when the serialized payload
\* built from the answer is longer than MAX_PAYLOAD_BYTES the answer is the first
\* 1000 characters of the answer's string form and the payload is then at or under
\* the limit; otherwise the answer is unchanged.
C5_SizeGuard ==
    pc = "submit" =>
        LET built == BuildPayload(original_email, original_secret, current_url, answer)
        IN IF PayloadSize(built) > MAX_PAYLOAD_BYTES
           THEN /\ payload.answer = StrAnswer(Take(PyStr(answer), AnswerLimit))
                /\ PayloadSize(payload) <= MAX_PAYLOAD_BYTES
           ELSE payload.answer = answer

\* The attempt's page fetch raised or returned an error status.
FetchFailed == last_fetch # None /\ last_fetch.failed

\* A POST outcome that is an exception, a status other than 200, or a body that
\* is not valid JSON.
BadPost(r) ==
    \/ r.kind = "exc"
    \/ r.kind = "resp" /\ r.status # 200
    \/ r.kind = "resp" /\ r.status = 200 /\ ~r.body.json

PostFailed == last_post # None /\ BadPost(last_post.received)

\* C6: once the fetch or the POST of an attempt has failed, the chain is out of its
\* loop, the last entry of results is an error entry with that attempt's url, and
\* no fetch or POST is made and no entry is appended from then on.
C6_ErrorStops ==
    /\ [](FetchFailed \/ PostFailed
            => /\ pc \in {"final", "idle"}
               /\ Len(results) = n_fetch
               /\ IsError(Last(results))
               /\ Last(results).url = last_fetch.url
               /\ FetchFailed => n_post = n_fetch - 1)
    /\ [][FetchFailed \/ PostFailed
            => n_fetch' = n_fetch /\ n_post' = n_post /\ results' = results]_vars

C6_Witness ==
    /\ pc = "idle"
    /\ n_fetch = 2
    /\ PostFailed
    /\ last_post.received = PostResp(200, NotJson, 0)
    /\ GoodResponse(results[1])
    /\ results[2] = ErrorEntry(UrlSum, [exc |-> "JSONDecodeError"])
    /\ returned = [done |-> TRUE, value |-> results]

\* The last POST of the chain got a 200 response with a JSON body, and the chain
\* has handled it and not yet fetched again.
Handled200 ==
    /\ last_post # None
    /\ ~BadPost(last_post.received)
    /\ n_fetch = n_post
    /\ pc \in {"loop", "final", "idle"}

\* if the body is an object with truthy correct and non-empty url
ShouldContinue(body) == body.dict /\ Continue(body)

\* The loop was left because the attempts or the time ran out.
BudgetSpent == timed_out \/ attempts >= max_attempts

\* C7 as stated: after a 200 grader response the chain is back at the head of its
\* loop, with current_url the response's url, exactly when the response has a
\* truthy correct and a non-empty url, and it leaves the loop from there only
\* because the attempts or the time ran out; else it has left the loop; and a
\* fetch that follows a POST fetches the url of that POST's response.
C7_Continuation ==
    /\ Handled200 =>
          IF ShouldContinue(last_post.received.body)
          THEN /\ current_url = last_post.received.body.url.v
               /\ pc = "loop" \/ BudgetSpent
          ELSE pc \in {"final", "idle"}
    /\ last_post # None /\ n_fetch = n_post + 1
          => /\ ~BadPost(last_post.received)
             /\ ShouldContinue(last_post.received.body)
             /\ last_fetch.url = last_post.received.body.url.v

\* The step is the handling of one request at the given endpoint.
Handles(endpoint) == n_req' = n_req + 1 /\ resp'.endpoint = endpoint

\* C8: POST /quiz touches neither the clock nor the running chain; with credentials
\* that fail verification it answers 403 and enqueues nothing, with credentials
\* that pass it answers "started" and enqueues exactly one run for the request's
\* url, email and secret; every enqueued run, and every run that fetches or
\* POSTs, has credentials that pass verification.
C8_QuizGate ==
    /\ [][Handles("/quiz") =>
            LET req == resp'.req
            IN /\ UNCHANGED <<now, chain_vars>>
               /\ IF verify_credentials(req.email, req.secret)
                  THEN /\ resp'.status = 200
                       /\ resp'.body.status = "started"
                       /\ tasks' = Append(tasks, Task(req.url, req.email, req.secret,
                                                      DefaultMaxAttempts))
                  ELSE /\ resp'.status = 403
                       /\ tasks' = tasks]_vars
    /\ [](\A i \in 1..Len(tasks) : verify_credentials(tasks[i].email, tasks[i].secret))
    /\ [](n_fetch > 0 \/ n_post > 0 => verify_credentials(email, secret))

C8_Witness ==
    /\ n_req = 2
    /\ resp = Forbidden("/quiz", [email |-> OtherEmail, secret |-> QUIZ_SECRET,
                                  url |-> UrlAudio])
    /\ tasks = <<Task(UrlAudio, QUIZ_EMAIL, QUIZ_SECRET, DefaultMaxAttempts)>>
    /\ pc = "idle"
    /\ n_fetch = 0
    /\ n_post = 0

\* The grader's answer to the POST of the last /quiz-sync request was a 200 with a
\* JSON body.
SyncGraded == sync_io.received # None /\ ~BadPost(sync_io.received)

\* C9: POST /quiz-sync with valid credentials fetches the request's url once and
\* nothing else, POSTs at most once, and leaves the queue and the running chain
\* alone; when the grader answers 200 with a JSON body, one POST was made with an
\* answer for the request's url and that body is returned as it is; in every
\* other case the response is a 400.
C9_SyncOneCycle ==
    /\ [](resp # None /\ resp.endpoint = "/quiz-sync"
             /\ verify_credentials(resp.req.email, resp.req.secret)
            => /\ sync_io.fetched = <<resp.req.url>>
               /\ Len(sync_io.posted) <= 1
               /\ IF SyncGraded
                  THEN /\ resp.status = 200
                       /\ resp.body = sync_io.received.body
                       /\ Len(sync_io.posted) = 1
                       /\ sync_io.posted[1].payload.url = resp.req.url
                  ELSE resp.status = 400)
    /\ [][Handles("/quiz-sync") => UNCHANGED <<tasks, chain_vars>>]_vars

C9_Witness ==
    /\ resp # None
    /\ resp.endpoint = "/quiz-sync"
    /\ resp.status = 200
    /\ resp.body = Obj(JTrue, JStr(UrlSum), None)
    /\ sync_io.fetched = <<UrlAudio>>
    /\ Len(sync_io.posted) = 1
    /\ sync_io.posted[1].to = UrlSubmit
    /\ n_fetch = 0
    /\ tasks = <<>>

\* C10 as stated: a request is let in exactly when its email is the configured
\* QUIZ_EMAIL and its secret the configured QUIZ_SECRET, and every chain started
\* through POST /quiz POSTs exactly the configured email and secret.
C10_ExactMatch ==
    /\ resp # None
         => (resp.status # 403
               <=> resp.req.email = QUIZ_EMAIL /\ resp.req.secret = QUIZ_SECRET)
    /\ last_post # None
         => /\ last_post.payload.email = QUIZ_EMAIL
            /\ last_post.payload.secret = QUIZ_SECRET

\* C10 amended: a request is let in exactly when its email and its secret, with
\* the surrounding whitespace stripped, are the configured QUIZ_EMAIL and
\* QUIZ_SECRET; every chain started through POST /quiz POSTs the email and the
\* secret of its request as they were sent, whose stripped forms are the
\* configured ones.
C10_StrippedMatch ==
    /\ resp # None
         => (resp.status # 403
               <=> strip(resp.req.email) = QUIZ_EMAIL
                   /\ strip(resp.req.secret) = QUIZ_SECRET)
    /\ \A i \in 1..Len(tasks) :
          \E req \in Requests : tasks[i].email = req.email /\ tasks[i].secret = req.secret
    /\ last_post # None
         => /\ last_post.payload.email = email
            /\ last_post.payload.secret = secret
            /\ strip(last_post.payload.email) = QUIZ_EMAIL
            /\ strip(last_post.payload.secret) = QUIZ_SECRET

C10_Witness ==
    /\ last_post # None
    /\ last_post.payload.email = PaddedEmail
    /\ last_post.payload.secret = PaddedSecret
    /\ resp # None
    /\ resp.status = 403
    /\ resp.req.email = PaddedEmail

\* C11 as stated: whatever the fetches and the grader answered, a chain that has
\* ended has returned its results list: no exception has escaped it.
C11_NoEscape ==
    returned.done => returned = [done |-> TRUE, value |-> results]

\* The word lists and the task types in the order the claim gives.
GroupWords == <<FileWords, SumWords, ApiWords, ScrapeWords, CountWords, AudioWords>>
GroupTypes == <<"file_download", "sum_calculation", "api_call", "scraping", "counting",
                "audio">>

\* The groups with a keyword in the lower-cased text.
GroupsPresent(text) ==
    {i \in 1..Len(GroupWords) : \E w \in text.words : Lower(w) \in GroupWords[i]}

\* C12: the task type parse_question assigns is that of the highest-priority
\* keyword group present in the lower-cased text, general when none is present;
\* a text with both "download" and "sum" is file_download.
C12_FirstRuleWins ==
    call # None /\ call.fn = "parse_question" /\ ret # None =>
        LET present == GroupsPresent(call.text)
            task_type == ret.value.task_type
        IN /\ present = {} => task_type = "general"
           /\ present # {}
                => task_type = GroupTypes[CHOOSE i \in present : \A j \in present : i <= j]
           /\ {"Download", "Sum"} \subseteq call.text.words => task_type = "file_download"

C12_Witness ==
    /\ call # None
    /\ call.fn = "parse_question"
    /\ ret # None
    /\ {"Download", "Sum", "Listen"} \subseteq call.text.words
    /\ ret.value.task_type = "file_download"

\* The match the claim says wins: the leftmost one of the first pattern, in the
\* order of the list, that matches somewhere in the html.
Winner(html) ==
    LET pats == {html[i].pat : i \in 1..Len(html)}
        best == CHOOSE p \in pats : \A q \in pats : p <= q
        at == {i \in 1..Len(html) : html[i].pat = best}
    IN html[CHOOSE i \in at : \A j \in at : i <= j]

SecretDone == call # None /\ call.fn = "solve_quiz_page" /\ ret # None

\* C13 as stated: the secret is the trimmed first group of the first pattern, in
\* list order, that matches anywhere in the html, and the sentinel when no pattern
\* matches; it is never None.
C13_TrimmedGroup ==
    SecretDone =>
        /\ ret.value # None
        /\ IF call.html = <<>>
           THEN ret.value = UNKNOWN_SECRET
           ELSE ret.value = strip(Winner(call.html).group)

\* C13 amended: the secret is the trimmed first group of the first pattern, in
\* list order, that matches anywhere in the html, when that is not empty; it is
\* the sentinel when no pattern matches or the trimmed group is empty; it is
\* never None and never empty.
C13_TrimmedOrSentinel ==
    SecretDone =>
        /\ ret.value # None
        /\ Truthy(ret.value)
        /\ IF call.html = <<>>
           THEN ret.value = UNKNOWN_SECRET
           ELSE LET trimmed == strip(Winner(call.html).group)
                IN IF trimmed = EmptyStr
                   THEN ret.value = UNKNOWN_SECRET
                   ELSE ret.value = trimmed

C13_Witness ==
    /\ SecretDone
    /\ call.html = <<Match(5, SecretC), Match(3, SecretB)>>
    /\ ret.value = Str(<<"b", "2">>)

\* C14 as stated: what either extract_submit_url returns, and the submit URL a
\* chain POSTs to, is never absent and never empty; extract_submit_url of main.py
\* returns origin + "/submit", with origin the URL without its last path segment,
\* for a text without a submit URL.
C14_AlwaysUrl ==
    /\ call # None /\ ret # None /\ call.fn = "utils.extract_submit_url"
         => ret.value # None /\ Truthy(ret.value)
    /\ call # None /\ ret # None /\ call.fn = "extract_submit_url"
         => /\ ret.value # None /\ Truthy(ret.value)
            /\ ~Truthy(call.text.submit)
                 => ret.value = Cat(RsplitHead(call.url), Str(TxtSubmitPath))
    /\ pc = "submit" => submit_url # None /\ Truthy(submit_url)

\* C15 as stated: between two attempts, after the loop and when the chain has
\* ended, results has exactly one entry for each attempt started.
C15_OneEntryPerAttempt ==
    pc \in {"loop", "final"} \/ returned.done => Len(results) = attempts

\* C16 as stated: the entry appended for a POST that the grader answered with a
\* 200 and a JSON body records the url and the answer of the payload that was
\* sent.
C16_RecordedIsSent ==
    [][n_post' = n_post + 1 /\ ~BadPost(last_post'.received)
        => /\ Len(results') > Len(results)
           /\ results'[Len(results) + 1].url = last_post'.payload.url
           /\ results'[Len(results) + 1].answer = last_post'.payload.answer]_vars

====
